---- MODULE Spec2Model ----
(***************************************************************************)
(* Model of causallearn/graph/SCM.py: the constructor SCM.__init__, which  *)
(* computes the s-, c- and sc-metric between a truth graph and an          *)
(* estimated graph, and the three accessors.                               *)
(*                                                                         *)
(* Node names are modelled as the naturals 1..MaxN; a graph's node_map     *)
(* iterates its names in ascending order.  Floats are modelled as exact    *)
(* rationals <<numerator, denominator>> in lowest terms (denominator > 0); *)
(* floating-point rounding is not modelled.                                *)
(***************************************************************************)
EXTENDS Integers, Sequences, FiniteSets, Bags, TLC

\* Largest number of nodes of a graph.
MaxN == 4
\* Largest number of edges of a graph.
MaxEdges == 2

NameUniverse == 1..MaxN

----------------------------------------------------------------------------
(* Rational arithmetic standing for Python float arithmetic.               *)

Abs(i) == IF i < 0 THEN -i ELSE i

RECURSIVE GCD(_, _)
GCD(a, b) == IF b = 0 THEN a ELSE GCD(b, a % b)

\* The rational n/d (d # 0) in lowest terms with a positive denominator.
Rat(n, d) ==
    LET g == GCD(Abs(n), Abs(d))
        s == IF d < 0 THEN -1 ELSE 1
    IN  << (s * n) \div g, (s * d) \div g >>

Zero == Rat(0, 1)

RatAdd(a, b) == Rat(a[1] * b[2] + b[1] * a[2], a[2] * b[2])

\* a / n for a rational a and a non-zero integer n.
RatDivInt(a, n) == Rat(a[1], a[2] * n)

----------------------------------------------------------------------------
(* The Graph collaborator (causallearn.graph.Graph): directed acyclic      *)
(* graphs whose edges run from a lower to a higher name.                   *)

PossibleEdges(names) == {e \in names \X names : e[1] < e[2]}

EdgeSets(names) ==
    {es \in SUBSET PossibleEdges(names) : Cardinality(es) <= MaxEdges}

Adjacent(es, u, v) == <<u, v>> \in es \/ <<v, u>> \in es

\* Simple paths of the skeleton with at most n nodes, as sequences of names.
RECURSIVE PathsUpTo(_, _)
PathsUpTo(es, n) ==
    IF n <= 1 THEN {<<v>> : v \in NameUniverse}
    ELSE LET shorter == PathsUpTo(es, n - 1)
         IN  shorter \cup
             UNION {{Append(p, v) : v \in
                        {w \in NameUniverse :
                            /\ Adjacent(es, p[Len(p)], w)
                            /\ \A i \in 1..Len(p) : p[i] # w}} : p \in shorter}

\* v and everything reachable from v along directed edges.
RECURSIVE DescendantsWithin(_, _, _)
DescendantsWithin(es, vs, n) ==
    IF n = 0 THEN vs
    ELSE DescendantsWithin(es, vs \cup {e[2] : e \in {d \in es : d[1] \in vs}}, n - 1)

Descendants(es, v) == DescendantsWithin(es, {v}, MaxN)

\* Path p is open given the conditioning set Z: every collider on it has a
\* descendant (or itself) in Z, every other interior node is outside Z.
PathOpen(es, p, Z) ==
    \A i \in 2..(Len(p) - 1) :
        IF <<p[i-1], p[i]>> \in es /\ <<p[i+1], p[i]>> \in es
        THEN Descendants(es, p[i]) \cap Z # {}
        ELSE p[i] \notin Z

\* The triples <<x, y, Z>> that are d-connected in the graph with edges es:
\* some path from x to y is open given Z.
DConnected(es) ==
    UNION {{<<p[1], p[Len(p)], Z>> : Z \in
               {Y \in SUBSET (NameUniverse \ {p[1], p[Len(p)]}) : PathOpen(es, p, Y)}} :
           p \in {q \in PathsUpTo(es, MaxN) : Len(q) >= 2}}

\* The d-connection relation of every edge set that adds at most MaxEdges
\* of the edges listed in rest to the edges in chosen.
RECURSIVE DConTableFrom(_, _)
DConTableFrom(rest, chosen) ==
    IF Cardinality(chosen) > MaxEdges THEN <<>>
    ELSE IF rest = <<>> THEN chosen :> DConnected(chosen)
    ELSE DConTableFrom(Tail(rest), chosen)
            @@ DConTableFrom(Tail(rest), chosen \cup {Head(rest)})

\* The elements of a finite set, listed in some order.
RECURSIVE SetToSeq(_)
SetToSeq(set) ==
    IF set = {} THEN <<>>
    ELSE LET x == CHOOSE e \in set : TRUE
         IN  <<x>> \o SetToSeq(set \ {x})

\* For every edge set, its d-connection relation.
DConTable == DConTableFrom(SetToSeq(PossibleEdges(NameUniverse)), {})

\* A Graph object: its identity, node names and edges.
Graphs(id, names) ==
    {[id |-> id, names |-> names, edges |-> es] : es \in EdgeSets(names)}

\* The truth graphs: names 1..n.
TruthGraphs == UNION {Graphs("A", 1..n) : n \in 0..MaxN}

\* The estimated graphs: any set of names.
EstGraphs == UNION {Graphs("B", names) : names \in SUBSET NameUniverse}

\* graph.get_num_nodes()
get_num_nodes(g) == Cardinality(g.names)

\* graph.get_node(name): the graph's own handle for the node of that name.
get_node(g, name) == [owner |-> g.id, name |-> name]

Range(s) == {s[i] : i \in 1..Len(s)}

\* graph.is_dconnected_to(x, y, Z) on handles x, y and a list of handles Z.
is_dconnected_to(g, x, y, Z) ==
    <<x.name, y.name, {h.name : h \in Range(Z)}>> \in DConTable[g.edges]

----------------------------------------------------------------------------
(* Helpers of SCM.__init__.                                                *)

\* The elements of a set of naturals in ascending order.
RECURSIVE SortedSeq(_)
SortedSeq(s) ==
    IF s = {} THEN <<>>
    ELSE LET m == CHOOSE x \in s : \A y \in s : x <= y
         IN  <<m>> \o SortedSeq(s \ {m})

\* {node.get_name(): node_id ...}: the names of a graph in iteration order.
NodeMap(g) == SortedSeq(g.names)

\* itertools.combinations(seq, k): the k-element subsequences of seq in
\* lexicographic order of their positions.
RECURSIVE Combinations(_, _)
Combinations(seq, k) ==
    IF k = 0 THEN << <<>> >>
    ELSE IF Len(seq) < k THEN <<>>
    ELSE LET withHead == Combinations(Tail(seq), k - 1)
         IN  [i \in 1..Len(withHead) |-> <<Head(seq)>> \o withHead[i]]
             \o Combinations(Tail(seq), k)

\* range(1, N-1)
KRange(n) == 1..(n - 2)

\* float / int for an integer-valued float a and a non-zero integer b.
TrueDiv(a, b) == Rat(a, b)

\* Line 59: 1.0 if (truth_i_con != est_i_con) else 0.0
SCMIncrement(truth_i_con, est_i_con) == IF truth_i_con # est_i_con THEN 1 ELSE 0

\* Line 62: 0.0 if est_i_con else 1.0
CMIncrement(est_i_con) == IF est_i_con THEN 0 ELSE 1

\* Line 66: 1.0 if est_i_con else 0.0
SMIncrement(est_i_con) == IF est_i_con THEN 1 ELSE 0

\* The sum of f[x] over the elements x of a finite set.
RECURSIVE SumOver(_, _)
SumOver(set, f) ==
    IF set = {} THEN 0
    ELSE LET x == CHOOSE d \in set : TRUE
         IN  f[x] + SumOver(set \ {x}, f)

----------------------------------------------------------------------------
VARIABLES
    truth, est,                 \* the two Graph arguments
    pc,                         \* position in SCM.__init__, or its outcome
    truth_node_map, est_node_map,
    N, k, S_sets,
    SM_k, CM_k, SCM_k, n_C_k_con, n_C_k_sep,
    SM, CM, SCM,                \* self.__SM, self.__CM, self.__SCM (<<>>: not set)
    visited,                    \* bag of the subsets S visited so far at the current size k
    queries,                    \* bag of the d-connection queries issued under the latest S
    getNodeCalls,               \* number of get_node calls issued so far
    first                       \* outcome of the construction with the roles not yet swapped

vars == <<truth, est, pc, truth_node_map, est_node_map, N, k, S_sets,
          SM_k, CM_k, SCM_k, n_C_k_con, n_C_k_sep, SM, CM, SCM,
          visited, queries, getNodeCalls, first>>

locals == <<N, k, S_sets, SM_k, CM_k, SCM_k, n_C_k_con, n_C_k_sep>>

Init ==
    /\ truth \in TruthGraphs
    /\ est \in EstGraphs
    /\ pc = "start"
    /\ truth_node_map = <<>>
    /\ est_node_map = <<>>
    /\ N = 0
    /\ k = 0
    /\ S_sets = <<>>
    /\ SM_k = 0
    /\ CM_k = 0
    /\ SCM_k = 0
    /\ n_C_k_con = 0
    /\ n_C_k_sep = 0
    /\ SM = <<>>
    /\ CM = <<>>
    /\ SCM = <<>>
    /\ visited = EmptyBag
    /\ queries = EmptyBag
    /\ getNodeCalls = 0
    /\ first = <<>>

\* The assert's condition, had it compared the sizes of the two maps only.
NamesAgreeBySize(tmap, emap) == Len(tmap) = Len(emap)

\* Line 26: the assert's condition.
NamesAgree(tmap, emap) == Range(tmap) = Range(emap)

\* Lines 24-26: build the two name maps and assert that the name sets agree.
CheckNames ==
    /\ pc = "start"
    /\ truth_node_map' = NodeMap(truth)
    /\ est_node_map' = NodeMap(est)
    /\ pc' = IF NamesAgree(NodeMap(truth), NodeMap(est))
             THEN "fields" ELSE "AssertionError"
    /\ UNCHANGED <<truth, est, locals, SM, CM, SCM, visited, queries, getNodeCalls, first>>

\* Lines 28-32: the three attributes start at 0.0; N is the truth graph's size.
InitFields ==
    /\ pc = "fields"
    /\ SM' = Zero
    /\ CM' = Zero
    /\ SCM' = Zero
    /\ N' = get_num_nodes(truth)
    /\ k' = 1
    /\ pc' = "for_k"
    /\ UNCHANGED <<truth, est, truth_node_map, est_node_map, S_sets,
                   SM_k, CM_k, SCM_k, n_C_k_con, n_C_k_sep,
                   visited, queries, getNodeCalls, first>>

\* Lines 34-41: the head of the loop over k, and the start of one size.
ForK ==
    /\ pc = "for_k"
    /\ IF k \in KRange(N)
       THEN /\ SM_k' = 0
            /\ CM_k' = 0
            /\ SCM_k' = 0
            /\ n_C_k_con' = 0
            /\ n_C_k_sep' = 0
            /\ S_sets' = Combinations(truth_node_map, k)
            /\ visited' = EmptyBag
            /\ queries' = EmptyBag
            /\ pc' = "for_S"
       ELSE /\ pc' = "average"
            /\ UNCHANGED <<S_sets, SM_k, CM_k, SCM_k, n_C_k_con, n_C_k_sep,
                           visited, queries>>
    /\ UNCHANGED <<truth, est, truth_node_map, est_node_map, N, k,
                   SM, CM, SCM, getNodeCalls, first>>

\* Line 43
S_names(S) == S
\* [g.get_node(t[0]) for t in S]
RECURSIVE ResolveAll(_, _)
ResolveAll(g, S) ==
    IF S = <<>> THEN <<>> ELSE <<get_node(g, Head(S))>> \o ResolveAll(g, Tail(S))

\* Line 44
truth_S_nodes(S) == ResolveAll(truth, S)
\* Line 45, had it resolved the members of S in the truth graph.
est_S_nodes_in_truth(S) == ResolveAll(truth, S)

\* Line 45
est_S_nodes(S) == ResolveAll(est, S)
\* Lines 48, 53
truth_node(name) == get_node(truth, name)
\* Lines 49, 54
est_node(name) == get_node(est, name)

\* Lines 46-47: the positions of truth_node_map the loop over x does not skip.
XPositions(S) ==
    {i \in 1..Len(truth_node_map) : truth_node_map[i] \notin Range(S_names(S))}

\* Lines 46-52 without line 52 (the skip of x_name == y_name).
XYPositionsWithSelf(S) ==
    UNION {{<<i, j>> : j \in {j \in 1..Len(truth_node_map) :
                          truth_node_map[j] \notin Range(S_names(S))}} :
           i \in {i \in 1..Len(truth_node_map) :
                    truth_node_map[i] \notin Range(S_names(S))}}

\* Lines 46-52: the pairs of positions for which the loop body runs.
XYPositions(S) ==
    UNION {{<<i, j>> : j \in {j \in 1..Len(truth_node_map) :
                          /\ truth_node_map[j] \notin Range(S_names(S))
                          /\ truth_node_map[i] # truth_node_map[j]}} :
           i \in XPositions(S)}

\* Lines 53-57: the two d-connection queries for one triple, given the
\* handles tS and eS that lines 44-45 resolved for S.
Query(S, tS, eS, x_name, y_name) ==
    [S_names |-> S_names(S), x_name |-> x_name, y_name |-> y_name,
     truth_on |-> truth.id,
     truth_args |-> <<truth_node(x_name), truth_node(y_name), tS>>,
     est_on |-> est.id,
     est_args |-> <<est_node(x_name), est_node(y_name), eS>>,
     truth_i_con |-> is_dconnected_to(truth, truth_node(x_name), truth_node(y_name), tS),
     est_i_con |-> is_dconnected_to(est, est_node(x_name), est_node(y_name), eS)]

\* Lines 46-57: one element per run of the innermost loop body under S: the
\* pair of positions and the queries issued there.
Iterations(S, tS, eS) ==
    {<<ij, Query(S, tS, eS, truth_node_map[ij[1]], truth_node_map[ij[2]])>> :
        ij \in XYPositions(S)}

\* Lines 42-67: the loop body for the next subset S, with its loops over x and y.
VisitSubset ==
    /\ pc = "for_S"
    /\ S_sets # <<>>
    /\ \E tS \in {truth_S_nodes(Head(S_sets))} :
       \E eS \in {est_S_nodes(Head(S_sets))} :
       \E its \in {Iterations(Head(S_sets), tS, eS)} :
       \E con \in {{it \in its : it[2].truth_i_con}} :
       \E sep \in {its \ con} :
          /\ SCM_k' = SCM_k + SumOver(its, [it \in its |->
                          SCMIncrement(it[2].truth_i_con, it[2].est_i_con)])
          /\ CM_k' = CM_k + SumOver(con, [it \in con |-> CMIncrement(it[2].est_i_con)])
          /\ n_C_k_con' = n_C_k_con + Cardinality(con)
          /\ SM_k' = SM_k + SumOver(sep, [it \in sep |-> SMIncrement(it[2].est_i_con)])
          /\ n_C_k_sep' = n_C_k_sep + Cardinality(sep)
          /\ queries' = EmptyBag (+)
                 [r \in {it[2] : it \in its} |-> Cardinality({it \in its : it[2] = r})]
          /\ visited' = visited (+) SetToBag({S_names(Head(S_sets))})
          /\ getNodeCalls' = getNodeCalls + Len(tS) + Len(eS)
                               + 2 * Cardinality(XPositions(Head(S_sets)))
                               + 2 * Cardinality(its)
    /\ S_sets' = Tail(S_sets)
    /\ UNCHANGED <<truth, est, pc, truth_node_map, est_node_map, N, k,
                   SM, CM, SCM, first>>

\* Line 69: the size-k term of the s-metric.
SContribution == TrueDiv(SM_k, n_C_k_sep)
\* Line 70: the size-k term of the c-metric.
CContribution == TrueDiv(SM_k, n_C_k_con)
\* Line 71: the size-k term of the sc-metric.
SCContribution == TrueDiv(SCM_k, n_C_k_sep + n_C_k_con)

\* Lines 68-71: normalise the counts of size k and add them to the running
\* sums; a zero divisor raises ZeroDivisionError at the line that divides.
Normalize ==
    /\ pc = "for_S"
    /\ S_sets = <<>>
    /\ IF n_C_k_sep = 0
       THEN /\ pc' = "ZeroDivisionError"
            /\ UNCHANGED <<SM, CM, SCM, k>>
       ELSE /\ SM' = RatAdd(SM, SContribution)
            /\ IF n_C_k_con = 0
               THEN /\ pc' = "ZeroDivisionError"
                    /\ UNCHANGED <<CM, SCM, k>>
               ELSE /\ CM' = RatAdd(CM, CContribution)
                    /\ SCM' = RatAdd(SCM, SCContribution)
                    /\ k' = k + 1
                    /\ pc' = "for_k"
    /\ UNCHANGED <<truth, est, truth_node_map, est_node_map, N, S_sets,
                   SM_k, CM_k, SCM_k, n_C_k_con, n_C_k_sep,
                   visited, queries, getNodeCalls, first>>

\* The divisor, had it been the number of sizes that contribute.
DivisorBySizes == N - 2

\* Lines 73-75: the divisor of the final average.
Divisor == N - 1

\* Lines 72-75: average the running sums.
Average ==
    /\ pc = "average"
    /\ IF Divisor = 0
       THEN /\ pc' = "ZeroDivisionError"
            /\ UNCHANGED <<SM, CM, SCM>>
       ELSE /\ SM' = RatDivInt(SM, Divisor)
            /\ CM' = RatDivInt(CM, Divisor)
            /\ SCM' = RatDivInt(SCM, Divisor)
            /\ pc' = "done"
    /\ UNCHANGED <<truth, est, truth_node_map, est_node_map, locals,
                   visited, queries, getNodeCalls, first>>

\* Lines 78-85: the accessors, callable once construction has returned.
get_s_metric == SM
get_c_metric == CM
get_sc_metric == SCM

Constructed == pc = "done"
Failed == pc \in {"AssertionError", "ZeroDivisionError"}
Finished == Constructed \/ Failed

Next ==
    \/ CheckNames
    \/ InitFields
    \/ ForK
    \/ VisitSubset
    \/ Normalize
    \/ Average

Spec == Init /\ [][Next]_vars

\* A caller that, once SCM(truth, est) has finished, constructs SCM(est, truth).
SwapRoles ==
    /\ Finished
    /\ first = <<>>
    /\ first' = <<[pc |-> pc, SCM |-> SCM]>>
    /\ truth' = est
    /\ est' = truth
    /\ pc' = "start"
    /\ truth_node_map' = <<>>
    /\ est_node_map' = <<>>
    /\ N' = 0
    /\ k' = 0
    /\ S_sets' = <<>>
    /\ SM_k' = 0
    /\ CM_k' = 0
    /\ SCM_k' = 0
    /\ n_C_k_con' = 0
    /\ n_C_k_sep' = 0
    /\ SM' = <<>>
    /\ CM' = <<>>
    /\ SCM' = <<>>
    /\ visited' = EmptyBag
    /\ queries' = EmptyBag
    /\ getNodeCalls' = 0

NextSwap == Next \/ SwapRoles

SpecSwap == Init /\ [][NextSwap]_vars

----------------------------------------------------------------------------
(* The quantities the claims speak of, defined from the two graphs'        *)
(* d-connection relations and not from the constructor's variables.        *)

\* For every size j, the triples <<x, y, Z>> over the name universe with
\* |Z| = j, x # y and both outside Z.
RECURSIVE TriplesFrom(_)
TriplesFrom(j) ==
    IF j > MaxN THEN <<>>
    ELSE (j :> UNION {{<<p[1], p[2], Z>> :
                          p \in {q \in (NameUniverse \ Z) \X (NameUniverse \ Z) : q[1] # q[2]}} :
                      Z \in {Y \in SUBSET NameUniverse : Cardinality(Y) = j}})
         @@ TriplesFrom(j + 1)

TriplesBySize == TriplesFrom(0)

\* The triples <<x, y, Z>> over the names: |Z| = j, x # y, both outside Z.
Triples(names, j) ==
    {t \in TriplesBySize[j] : t[1] \in names /\ t[2] \in names /\ t[3] \subseteq names}

ConnectedTriples(j) == {t \in Triples(truth.names, j) : t \in DConTable[truth.edges]}
SeparatedTriples(j) == {t \in Triples(truth.names, j) : t \notin DConTable[truth.edges]}
SpuriousConnections(j) == {t \in SeparatedTriples(j) : t \in DConTable[est.edges]}

NumNodes == Cardinality(truth.names)
SameNames == truth.names = est.names
Sizes == 1..(NumNodes - 2)

AllSeparatedCountsNonZero == \A j \in Sizes : SeparatedTriples(j) # {}
AllConnectedCountsNonZero == \A j \in Sizes : ConnectedTriples(j) # {}
AllDenominatorsNonZero == AllSeparatedCountsNonZero /\ AllConnectedCountsNonZero

\* The only element of a singleton set.
TheOnly(set) == CHOOSE x \in set : TRUE

\* (triples of size j d-connected in truth, d-separated in est) / (triples
\* of size j d-connected in truth)
MissedRate(j) ==
    TheOnly({Rat(Cardinality({t \in con : t \notin DConTable[est.edges]}), Cardinality(con)) :
                con \in {ConnectedTriples(j)}})

\* (triples of size j d-separated in truth, d-connected in est) / (triples
\* of size j d-separated in truth)
SpuriousRate(j) ==
    TheOnly({Rat(Cardinality({t \in sep : t \in DConTable[est.edges]}), Cardinality(sep)) :
                sep \in {SeparatedTriples(j)}})

\* The sums of the rates over the sizes 1..j.
RECURSIVE MissedRateSum(_)
MissedRateSum(j) ==
    IF j <= 0 THEN Zero ELSE RatAdd(MissedRateSum(j - 1), MissedRate(j))

RECURSIVE SpuriousRateSum(_)
SpuriousRateSum(j) ==
    IF j <= 0 THEN Zero ELSE RatAdd(SpuriousRateSum(j - 1), SpuriousRate(j))

\* The binomial coefficient C(n, j).
RECURSIVE Binomial(_, _)
Binomial(n, j) ==
    IF j = 0 THEN 1
    ELSE IF n < j THEN 0
    ELSE Binomial(n - 1, j - 1) + Binomial(n - 1, j)

One == Rat(1, 1)
RatLeq(a, b) == a[1] * b[2] <= b[1] * a[2]
InUnitInterval(r) == RatLeq(Zero, r) /\ RatLeq(r, One)

----------------------------------------------------------------------------
\* C1: once the sizes 1..k-1 have been normalised, the c-metric running sum
\* is the sum over those sizes of (triples d-connected in truth and
\* d-separated in est) / (triples d-connected in truth): each size adds its
\* missed-connection count over its connected-triple count.
C1_CSumIsMissedOverConnected ==
    (pc = "for_k" /\ N >= 3) => CM = MissedRateSum(k - 1)

\* C2: with N >= 3 and a size whose connected-triple or separated-triple
\* count is zero, construction still completes (and the accessors return
\* finite values): it does not end in a division by zero.
C2_ZeroDenominatorStillConstructs ==
    (Finished /\ SameNames /\ NumNodes >= 3 /\ ~AllDenominatorsNonZero)
        => Constructed

\* C3: for est structurally equal to truth with the same names and N >= 3,
\* construction succeeds and the three metrics are 0.
C3_IdenticalGraphsScoreZero ==
    (Finished /\ SameNames /\ truth.edges = est.edges /\ NumNodes >= 3)
        => /\ Constructed
           /\ get_s_metric = Zero
           /\ get_c_metric = Zero
           /\ get_sc_metric = Zero

\* C4: when every per-size connected-triple and separated-triple count is
\* non-zero, each of the three returned metrics lies in [0, 1].
C4_MetricsInUnitInterval ==
    (Constructed /\ AllDenominatorsNonZero)
        => /\ InUnitInterval(get_s_metric)
           /\ InUnitInterval(get_c_metric)
           /\ InUnitInterval(get_sc_metric)

\* C5: SCM(truth=A, est=B) and SCM(truth=B, est=A) either both construct
\* with equal sc-metrics or both fail.
C5_ScMetricSwapInvariant ==
    (Finished /\ first # <<>>)
        => \/ first[1].pc = "done" /\ Constructed /\ first[1].SCM = get_sc_metric
           \/ first[1].pc # "done" /\ Failed

\* C6: when the two name sets differ, construction gets no further than the
\* assertion: it fails there, no get_node call and no d-connection query has
\* been issued, and no metric attribute has been set.
C6_MismatchFailsBeforeAnyQuery ==
    ~SameNames
        => /\ pc \in {"start", "AssertionError"}
           /\ getNodeCalls = 0
           /\ queries = EmptyBag
           /\ visited = EmptyBag
           /\ SM = <<>> /\ CM = <<>> /\ SCM = <<>>

C6_Witness ==
    /\ pc = "AssertionError"
    /\ truth.names = {1, 2, 3}
    /\ est.names = {1, 2, 4}

\* C7: with fewer than 3 nodes, construction issues no d-connection query
\* and does not end in an arithmetic failure.
C7_SmallGraphsNoArithmeticFailure ==
    (SameNames /\ NumNodes < 3)
        => /\ queries = EmptyBag
           /\ pc # "ZeroDivisionError"

C9_ExhaustiveEnumeration ==
    pc = "for_S" =>
        \E subsets \in {BagToSet(visited)} :
          \E issued \in {BagToSet(queries)} :
            \E under \in {{r.S_names : r \in issued}} :
              /\ \A S \in subsets :
                    /\ visited[S] = 1
                    /\ Range(S) \subseteq truth.names
                    /\ Cardinality(Range(S)) = k
              /\ Cardinality({Range(S) : S \in subsets}) = Cardinality(subsets)
              /\ n_C_k_con + n_C_k_sep = Cardinality(subsets) * (N - k) * (N - k - 1)
              /\ \A r \in issued : queries[r] = 1
              /\ under \subseteq subsets
              /\ Cardinality(under) = IF subsets = {} THEN 0 ELSE 1
              /\ \A S \in under :
                    {<<r.x_name, r.y_name>> : r \in issued}
                        = {p \in (truth.names \ Range(S)) \X (truth.names \ Range(S)) :
                              p[1] # p[2]}
              /\ S_sets = <<>> =>
                    /\ {Range(S) : S \in subsets}
                          = {Z \in SUBSET truth.names : Cardinality(Z) = k}
                    /\ n_C_k_con + n_C_k_sep = Binomial(N, k) * (N - k) * (N - k - 1)

C9_Witness ==
    /\ pc = "for_S"
    /\ S_sets = <<>>
    /\ N = 4
    /\ k = 2
    /\ n_C_k_con > 0
    /\ n_C_k_sep > 0

\* C10: every d-connection query is issued with handles of the graph it is
\* issued against, resolved from the names of the triple at hand; the truth
\* query and the est query of one triple name the same X, Y and S.
HandlesOf(args) == {args[1], args[2]} \cup Range(args[3])
NamesOf(args) == <<args[1].name, args[2].name, [i \in 1..Len(args[3]) |-> args[3][i].name]>>

C10_HandlesStayWithTheirGraph ==
    \A r \in BagToSet(queries) :
        /\ r.truth_on = truth.id
        /\ r.est_on = est.id
        /\ \A h \in HandlesOf(r.truth_args) : h.owner = r.truth_on
        /\ \A h \in HandlesOf(r.est_args) : h.owner = r.est_on
        /\ NamesOf(r.truth_args) = <<r.x_name, r.y_name, r.S_names>>
        /\ NamesOf(r.est_args) = <<r.x_name, r.y_name, r.S_names>>

C10_Witness ==
    /\ pc = "for_S"
    /\ k = 2
    /\ queries # EmptyBag

====
